---- MODULE Spec2Model ----
(***************************************************************************)
(* The GraalVM command set of mx/commands.py: the `gate` task sequence,    *)
(* the commands it drives (build, vm, unittest, the DaCapo sanity checks), *)
(* the JDK bookkeeping of _jdk and the command line post-parsing.          *)
(*                                                                         *)
(* One process is modelled: mx parses its command line                     *)
(* (mx_post_parse_cmd_line), runs `gate` and exits.  Everything the code   *)
(* shells out to (checkstyle, javac, gmake, the VM, the benchmarks, the    *)
(* clock, the file system found at start) is the environment, drawn with   *)
(* \E from small sets.                                                     *)
(***************************************************************************)
EXTENDS Integers, Sequences, FiniteSets

\* ------------------------------------------------------------- bounds

\* The wall clock runs from 0 to MaxTime.
MaxTime == 1

\* How many DaCapo benchmarks sanitycheck.getDacapos(level=Gate) returns.
NumDacapo == 2

\* How many arguments a command line of unittest has at most.
MaxArgs == 2

\* How many test classes the scan of unittest finds at most.
MaxClasses == 2

\* How many calls of _jdk a sequence of calls has at most.
MaxCalls == 3

\* ------------------------------------------------------------ values

\* The two shapes of mx.abort's codeOrMessage: an exit code or a message.
\* Either way the text is kept as the sequence of the strings it is built of.
Code(c) == [kind |-> "code", v |-> c]

Msg(m) == [kind |-> "msg", v |-> m]

\* Exit codes a failing external process can return (as Python prints them).
ExitCodes == {<<"1">>, <<"2">>}

\* int(c) of such a code.
CodeValue(c) == IF c = <<"1">> THEN 1 ELSE 2

\* Messages of the exceptions the environment's checks can raise.
ExcMessages == {<<"IOError">>, <<"OSError">>}

NoArg == [kind |-> "none", v |-> <<>>]

\* No exception is propagating.
NoExc == [type |-> "none", arg |-> NoArg]

\* The failure mx.abort(codeOrMessage) raises.
MxAbort(codeOrMessage) == [type |-> "abort", arg |-> codeOrMessage]

\* An exception raised by a check (an Exception subclass) with message m.
Raise(m) == [type |-> "exception", arg |-> Msg(m)]

\* str(e) of a propagating failure: its argument as text.
Str(e) == Msg(e.arg.v)

\* The process exit status of a failure that leaves the program: an integer
\* code is the status, anything else is printed and the status is 1.
ExitStatusOf(e) ==
  IF e.type = "abort" /\ e.arg.kind = "code" THEN CodeValue(e.arg.v) ELSE 1

\* A Task that was never created.
NoTask == [start |-> -1, title |-> <<>>]

\* ------------------------------------------------------ the gate steps

\* Mutant of GateVariants: the loop takes the variants in the other order.
GateVariantsSwapped == <<"fastdebug", "product">>

\* The build variants gate loops over.
GateVariants == <<"product", "fastdebug">>

\* The steps before the loop, and the steps of one loop iteration.
PlainSteps == <<"Checkstyle", "Canonicalization Check", "BuildJava">>

VariantSteps == <<"BuildHotSpot:", "BootstrapWithSystemAssertions:",
                  "UnitTests:", "DaCapoBenchmarks:">>

NumSteps == Len(PlainSteps) + Len(GateVariants) * Len(VariantSteps)

StepIds == 1..NumSteps

\* The loop iteration step i belongs to (0 before the loop).
VariantIndex(i) ==
  IF i <= Len(PlainSteps) THEN 0
  ELSE ((i - Len(PlainSteps) - 1) \div Len(VariantSteps)) + 1

\* The statement of the gate body step i is (its title without the variant).
StepName(i) ==
  IF i <= Len(PlainSteps) THEN PlainSteps[i]
  ELSE VariantSteps[((i - Len(PlainSteps) - 1) % Len(VariantSteps)) + 1]

\* The loop variable vmbuild while step i runs.
StepVariant(i) == GateVariants[VariantIndex(i)]

\* The title gate gives the Task of step i: a string, or 'Name:' + vmbuild.
StepTitle(i) ==
  IF VariantIndex(i) = 0 THEN <<StepName(i)>>
  ELSE <<StepName(i)>> \o <<StepVariant(i)>>

GateTitle == <<"Gate">>

\* ------------------------------------------------- the JDK on disk

\* The sub-directories _jdk copies from the host JDK, in its order.
JdkSubdirs == <<"bin", "db", "include", "jre", "lib", "man">>

AllJdkSubdirs == {JdkSubdirs[k] : k \in 1..Len(JdkSubdirs)}

\* The build types _jdk keeps in a directory of their own.
VariantBuilds == {"debug", "fastdebug", "optimized"}

\* A line of jvm.cfg is the sequence of its words.
GraalKnown == <<"-graal", "KNOWN">>

ServerKnown == <<"-server", "KNOWN">>

\* A file that does not exist, and a file with the given lines; eol tells
\* whether the text of the file ends with a newline (or is empty).
NoFile == [exists |-> FALSE, lines |-> <<>>, eol |-> TRUE]

File(ls) == [exists |-> TRUE, lines |-> ls, eol |-> TRUE]

\* f.write(text) on a file opened with 'a', text being one line with its
\* newline: it continues the last line when that has no newline yet.
AppendLine(file, line) ==
  [file EXCEPT !.lines = IF file.eol \/ @ = <<>> THEN Append(@, line)
                         ELSE [@ EXCEPT ![Len(@)] = @ \o line],
               !.eol = TRUE]

\* pat in line: pat occurs in line as a contiguous part.
Contains(line, pat) ==
  \E k \in 0..(Len(line) - Len(pat)) :
    \A m \in 1..Len(pat) : line[k + m] = pat[m]

\* Lines 194-203 of _jdk: create the JDK directory from the host JDK when it
\* does not exist; abort at the first host directory that is missing, with
\* the directories before it already copied.
JdkCreate(f) ==
  IF f.jdkExists
  THEN [fs |-> f, out |-> "ok", msg |-> <<>>, logs |-> <<>>]
  ELSE LET missing == {k \in 1..Len(JdkSubdirs) : JdkSubdirs[k] \notin f.hostDirs}
           first == IF missing = {} THEN Len(JdkSubdirs) + 1
                    ELSE CHOOSE k \in missing : \A m \in missing : k <= m
           copied == {JdkSubdirs[k] : k \in 1..(first - 1)}
           g == [f EXCEPT !.jdkExists = TRUE,
                          !.jdkDirs = copied,
                          !.jvmCfg = IF "jre" \in copied THEN f.hostCfg ELSE NoFile]
       IN [fs |-> g,
           out |-> IF missing = {} THEN "ok" ELSE "abort",
           msg |-> IF missing = {} THEN <<>> ELSE <<"Host JDK directory is missing">>,
           logs |-> <<"Creating jdk">>]

\* Mutant of JdkCfg: '-graal KNOWN' is appended without looking for it.
JdkCfgAlwaysAppends(f) ==
  IF ~f.jvmCfg.exists
  THEN [fs |-> f, out |-> "abort", msg |-> <<"jvm.cfg does not exist">>, logs |-> <<>>]
  ELSE [fs |-> [f EXCEPT !.jvmCfg = AppendLine(@, GraalKnown)],
        out |-> "ok", msg |-> <<>>, logs |-> <<"Appending -graal KNOWN">>]

\* Lines 205-218 of _jdk: jvm.cfg must exist; '-graal KNOWN' is appended
\* unless some line contains it.
JdkCfg(f) ==
  IF ~f.jvmCfg.exists
  THEN [fs |-> f, out |-> "abort", msg |-> <<"jvm.cfg does not exist">>, logs |-> <<>>]
  ELSE IF \E k \in 1..Len(f.jvmCfg.lines) : Contains(f.jvmCfg.lines[k], GraalKnown)
  THEN [fs |-> f, out |-> "ok", msg |-> <<>>, logs |-> <<>>]
  ELSE [fs |-> [f EXCEPT !.jvmCfg = AppendLine(@, GraalKnown)],
        out |-> "ok", msg |-> <<>>, logs |-> <<"Appending -graal KNOWN">>]

\* Lines 220-233 of _jdk: the directory of the build type; a variant
\* directory is created from the JDK's own sub-directories when create is
\* set (copytree raises when one of them is missing), else its absence aborts.
JdkVariant(build, create, f) ==
  IF build = "product"
  THEN [fs |-> f, out |-> "ok", msg |-> <<>>, logs |-> <<>>]
  ELSE IF build \in VariantBuilds
  THEN IF build \in f.variants
       THEN [fs |-> f, out |-> "ok", msg |-> <<>>, logs |-> <<>>]
       ELSE IF ~create
       THEN [fs |-> f, out |-> "abort", msg |-> <<"The", build, "VM has not been created">>,
             logs |-> <<>>]
       ELSE [fs |-> [f EXCEPT !.variants = @ \cup {build}],
             out |-> IF f.jdkDirs = AllJdkSubdirs THEN "ok" ELSE "raise",
             msg |-> IF f.jdkDirs = AllJdkSubdirs THEN <<>> ELSE <<"OSError">>,
             logs |-> <<"Creating variant">>]
  ELSE [fs |-> f, out |-> "abort", msg |-> <<"Unknown build type:", build>>, logs |-> <<>>]

\* _jdk(build, create) on the file system f: the file system it leaves, how
\* it ends ("ok": returns the directory, "abort": mx.abort(msg), "raise": an
\* exception with message msg) and the lines it logs.
_jdk(build, create, f) ==
  LET a == JdkCreate(f) IN
  IF a.out # "ok" THEN a
  ELSE LET b == JdkCfg(a.fs) IN
       IF b.out # "ok" THEN [b EXCEPT !.logs = a.logs \o @]
       ELSE LET c == JdkVariant(build, create, b.fs) IN
            [c EXCEPT !.logs = a.logs \o b.logs \o @]

\* The failure a call of _jdk that did not return leaves propagating.
JdkFailure(r) == IF r.out = "abort" THEN MxAbort(Msg(r.msg)) ELSE Raise(r.msg)

\* The file systems a run can start from.
FreshFs == [jdkExists |-> FALSE, jdkDirs |-> {}, jvmCfg |-> NoFile,
            variants |-> {}, graalVmDirs |-> {},
            hostDirs |-> AllJdkSubdirs, hostCfg |-> File(<<ServerKnown>>)]

InstalledFs == [FreshFs EXCEPT !.jdkExists = TRUE, !.jdkDirs = AllJdkSubdirs,
                               !.jvmCfg = File(<<ServerKnown, GraalKnown>>)]

StartFs ==
  { FreshFs,
    [FreshFs EXCEPT !.hostDirs = AllJdkSubdirs \ {"lib"}],
    [FreshFs EXCEPT !.hostCfg = NoFile],
    InstalledFs,
    [InstalledFs EXCEPT !.jdkDirs = AllJdkSubdirs \ {"man"}],
    [InstalledFs EXCEPT !.variants = {"fastdebug"}, !.graalVmDirs = {"product"}] }

\* ------------------------------------------------------------- state

VARIABLES
  pc,                   \* where the process is
  i,                    \* the gate step the process is in (1..NumSteps)
  d,                    \* the DaCapo benchmark the loop of line 584 is at
  log,                  \* the lines mx.log has written
  now,                  \* time.time()
  total,                \* gate's local `total`: the Task 'Gate'
  t,                    \* gate's local `t`: the Task of the current step
  exc,                  \* the failure that is propagating (NoExc: none)
  exitStatus,           \* the exit status of the process (-1: still running)
  _vmbuild,             \* the module global _vmbuild
  _vmSourcesAvailable,  \* the module global _vmSourcesAvailable
  platformSystem,       \* platform.system()
  javaVersion,          \* mx.java().version, as version.split('.')
  fs,                   \* the JDK directories and jvm.cfg on disk
  res,                  \* how the external check of each step ended
  commands,             \* mx.commands: the dispatch table, name -> entry
  arguments,            \* the options mx.add_argument has registered
  args,                 \* the arguments of the command that runs
  tmp,                  \* export: the temporary directory and what it holds
  zip,                  \* export: the distribution zip and what was written to it
  classes,              \* unittest: the test classes, as they are discovered and filtered
  junit,                \* unittest: the class names JUnitCore was started with
  numTests,             \* dacapo: the iterations of each selected benchmark
  failed,               \* dacapo: the benchmarks that failed, in order
  runs,                 \* dacapo: the benchmarks that were run, in order
  calls                 \* how many calls of _jdk in a row have returned

\* The state of the command line front end.
mxVars == <<commands, arguments>>

\* The state of export, of unittest and of dacapo.
exportVars == <<tmp, zip>>

unittestVars == <<classes, junit>>

dacapoVars == <<numTests, failed, runs>>

\* The state of the commands other than gate.
cmdVars == <<args, exportVars, unittestVars, dacapoVars, calls>>

vars == <<pc, i, d, log, now, total, t, exc, exitStatus, _vmbuild,
          _vmSourcesAvailable, platformSystem, javaVersion, fs, res, mxVars, cmdVars>>

\* A directory or archive that does not exist, and one holding `files`.
NoDir == [exists |-> FALSE, files |-> {}]

Dir(files) == [exists |-> TRUE, files |-> files]

\* JUnitCore was not started, and JUnitCore started with the class names cs.
NotStarted == [started |-> FALSE, classes |-> <<>>]

Started(cs) == [started |-> TRUE, classes |-> cs]

\* export, unittest and dacapo have not run.
ExportIdle == tmp = NoDir /\ zip = NoDir

UnittestIdle == classes = <<>> /\ junit = NotStarted

DacapoIdle == numTests = <<>> /\ failed = <<>> /\ runs = <<>>

\* No sequence of _jdk calls is under way.
JdkIdle == calls = 0

\* A check that was not invoked, and the ways an invoked check ends:
\*   ok          it returned and reported success
\*   nonzero     an exit code other than 0 (returned, or of a process mx.run ran)
\*   false       a benchmark's test() returned False
\*   raise       it raised an exception
\*   config      _jdk aborted: a directory or file of the JDK is missing
\*   nativefail  the Windows native build reported failure
NotInvoked == [how |-> "none", arg |-> NoArg]

Ended(how, arg) == [how |-> how, arg |-> arg]

\* The Java versions mx.java().version can report, as version.split('.').
JavaVersions == {<<1, 6>>, <<1, 7>>, <<2, 0>>, <<7>>}

\* The values of opts.vmbuild ("none": the option was not given).
VmbuildOptions == {"none", "product", "debug", "fastdebug", "optimized"}

\* The names of the DaCapo benchmarks of sanitycheck.
DacapoNames == <<"avrora", "batik", "eclipse", "fop", "h2", "jython", "luindex",
                 "lusearch", "pmd", "sunflow", "tomcat", "tradebeans",
                 "tradesoap", "xalan">>

\* A log line: BEGIN, END and ABORT lines carry a title, END and ABORT an
\* elapsed duration; any other line is its text.
NoDuration == [given |-> FALSE, seconds |-> 0]

Elapsed(s) == [given |-> TRUE, seconds |-> s]

Line(kind, title, duration) == [kind |-> kind, title |-> title, dur |-> duration]

RECURSIVE LogLines(_)
LogLines(texts) ==
  IF texts = <<>> THEN <<>>
  ELSE <<Line("LOG", <<Head(texts)>>, NoDuration)>> \o LogLines(Tail(texts))

\* The dispatch table before mx_init: the commands mx itself provides.
\* An entry is the handler (module, function) and the usage text.
Entry(module, function, usage) == [handler |-> <<module, function>>, usage |-> usage]

MxNames == {"build", "clean", "checkstyle", "canonicalizeprojects", "help", "export"}

MxCommands == [n \in MxNames |-> Entry("mx", n, "")]

\* gate has not run.
GateIdle ==
  /\ i = 0
  /\ d = 0
  /\ total = NoTask
  /\ t = NoTask
  /\ res = [k \in StepIds |-> NotInvoked]

\* The process has just started: nothing logged, no failure, not exited.
ProcessStarts ==
  /\ log = <<>>
  /\ now = 0
  /\ exc = NoExc
  /\ exitStatus = -1

Init ==
  /\ pc = "init"
  /\ commands = MxCommands
  /\ arguments = {}
  /\ args = <<>>
  /\ ExportIdle
  /\ UnittestIdle
  /\ DacapoIdle
  /\ JdkIdle
  /\ i = 0
  /\ d = 0
  /\ log = <<>>
  /\ now = 0
  /\ total = NoTask
  /\ t = NoTask
  /\ exc = NoExc
  /\ exitStatus = -1
  /\ _vmbuild = "product"
  /\ _vmSourcesAvailable \in BOOLEAN
  /\ platformSystem \in {"Linux", "Windows"}
  /\ javaVersion \in JavaVersions
  /\ fs \in StartFs
  /\ res = [k \in StepIds |-> NotInvoked]

\* ------------------------------------------------------ gate.Task

\* Task.__init__: the Task with its start time; its BEGIN line.
Task(title) == [start |-> now, title |-> title]

BeginLine(title) == Line("BEGIN", title, NoDuration)

\* Mutant of Duration: the operands of the subtraction are exchanged.
DurationReversed(task) == task.start - now

\* time.time() - self.start
Duration(task) == now - task.start

\* Task.stop: the END line with the elapsed duration.
EndLine(task) == Line("END", task.title, Elapsed(Duration(task)))

\* Task.abort: the ABORT line with the elapsed duration.
AbortLine(task) == Line("ABORT", task.title, Elapsed(Duration(task)))

\* Mutant of InTry: the try block ends before the loop over the variants.
InTryBeforeLoop == pc \in {"begin", "check", "stop"} /\ i <= Len(PlainSteps)

\* Whether the process is inside gate's try block (lines 546-587), where a
\* failure goes to the handler of line 588; elsewhere it leaves the program.
InTry == pc \in {"begin", "check", "stop"}

\* Whether the failure mx.abort raises is one `except Exception` catches:
\* on an inner abort the outer step aborts too, with the captured reason.
AbortIsCaught == TRUE

\* Whether `except Exception` catches the failure e.
CaughtByExcept(e) == e.type = "exception" \/ (e.type = "abort" /\ AbortIsCaught)

\* A failure e starts to propagate from the current statement.
Propagate(e) ==
  /\ exc' = e
  /\ pc' = IF InTry /\ CaughtByExcept(e) THEN "except" ELSE "unwind"

\* Mutant of TaskAbort: the ABORT line is logged but mx.abort is not called,
\* so the statement after the call is next.
TaskAbortNoRaise(task, codeOrMessage, before) ==
  /\ log' = log \o before \o <<Line("ABORT", task.title, Elapsed(now - task.start))>>
  /\ pc' = IF pc = "except" THEN "end" ELSE "stop"
  /\ UNCHANGED exc

\* Task.abort(codeOrMessage), after the lines `before` were logged: log the
\* ABORT line, then mx.abort(codeOrMessage).
TaskAbort(task, codeOrMessage, before) ==
  /\ log' = log \o before \o <<AbortLine(task)>>
  /\ Propagate(MxAbort(codeOrMessage))

\* ------------------------------------------- the commands gate runs

\* The ways mx.build ends: it returns, a process it ran failed, it raised.
MxBuildOutcomes ==
  {Ended("ok", NoArg)} \cup {Ended("nonzero", Code(c)) : c \in ExitCodes}
    \cup {Ended("raise", Msg(m)) : m \in ExcMessages}

\* The ways a process run by mx.run ends: exit code 0 or another one.
RunOutcomes == {Ended("ok", NoArg)} \cup {Ended("nonzero", Code(c)) : c \in ExitCodes}

\* The ways the native build of one build type ends, per platform: on Windows
\* the create command or the msbuild run may not print its success line,
\* elsewhere gmake exits with a code.
NativeOutcomes(plat) ==
  IF plat = "Windows"
  THEN {Ended("ok", NoArg), Ended("createfail", NoArg), Ended("buildfail", NoArg)}
  ELSE RunOutcomes

\* The failure of an outcome that is one: mx.run aborts with the exit code
\* (nonZeroIsFatal), an exception propagates.
FailureOf(o) ==
  IF o.how = "nonzero" THEN MxAbort(o.arg)
  ELSE IF o.how = "raise" THEN [type |-> "exception", arg |-> o.arg]
  ELSE NoExc

\* What a command leaves: the file system, how it ended, the failure that is
\* propagating (NoExc when it returned) and the lines it logged.
Result(f, how, e, logs) == [fs |-> f, how |-> how, exc |-> e, logs |-> logs]

\* Lines 288-324 of build: the loop over the build types. outs gives the end
\* of the native build of each.
RECURSIVE BuildNative(_, _, _, _)
BuildNative(builds, outs, plat, f) ==
  IF builds = <<>> THEN Result(f, "ok", NoExc, <<>>)
  ELSE
    LET b == Head(builds)
        o == Head(outs)
        j == _jdk(b, TRUE, f)
        made == b \notin j.fs.graalVmDirs
        g == [j.fs EXCEPT !.graalVmDirs = @ \cup {b}]
        logs == j.logs \o (IF made THEN <<"Creating Graal directory in JDK7">> ELSE <<>>)
    IN
    IF j.out = "abort" THEN Result(j.fs, "config", JdkFailure(j), j.logs)
    ELSE IF j.out = "raise" THEN Result(j.fs, "raise", JdkFailure(j), j.logs)
    ELSE IF plat = "Windows" /\ o.how = "createfail"
    THEN Result(g, "nativefail", NoExc, logs \o <<"Error executing create command">>)
    ELSE IF plat = "Windows" /\ o.how = "buildfail"
    THEN Result(g, "nativefail", NoExc, logs \o <<"Error building project">>)
    ELSE IF plat # "Windows" /\ o.how = "nonzero"
    THEN Result(g, "nonzero", FailureOf(o), logs)
    ELSE LET rest == BuildNative(Tail(builds), Tail(outs), plat, g)
         IN [rest EXCEPT !.logs = logs \o @]

\* build(args): args are the options and the build types (the remainder).
\* mxBuild is how mx.build ends, outs how the native builds end.
build(noNative, remainder, mxBuild, outs, f) ==
  IF mxBuild.how # "ok" THEN Result(f, mxBuild.how, FailureOf(mxBuild), <<>>)
  ELSE IF ~_vmSourcesAvailable \/ noNative THEN Result(f, "ok", NoExc, <<>>)
  ELSE BuildNative(IF remainder = <<>> THEN <<"product">> ELSE remainder,
                   outs, platformSystem, f)

\* vm(args, vmbuild=None): run the VM of the selected build; run is how the
\* process ends.
vm(vmbuildArg, run, f) ==
  LET b == IF vmbuildArg # "none" THEN vmbuildArg
           ELSE IF _vmSourcesAvailable THEN _vmbuild ELSE "product"
      j == _jdk(b, FALSE, f)
  IN
  IF j.out = "abort" THEN Result(j.fs, "config", JdkFailure(j), j.logs)
  ELSE IF j.out = "raise" THEN Result(j.fs, "raise", JdkFailure(j), j.logs)
  ELSE Result(j.fs, run.how, FailureOf(run), j.logs)

\* unittest(args) with no filters: the scan for test classes may raise, then
\* the VM runs JUnit on the classes found.
ScanOutcomes == {Ended("ok", NoArg)} \cup {Ended("raise", Msg(m)) : m \in ExcMessages}

unittest(scan, run, f) ==
  IF scan.how # "ok" THEN Result(f, scan.how, FailureOf(scan), <<>>)
  ELSE vm("none", run, f)

\* ------------------------------------------------------------ actions

\* The table mx_init builds (lines 613-625), and the entries it adds to it
\* when the native build sources are on disk (lines 633-636).
InitCommands ==
  [n \in {"build", "clean", "copyrightcheck", "dacapo", "specjvm2008", "example",
          "gate", "bench", "unittest", "vm", "ideinit"} |->
     Entry("commands", n,
           CASE n = "build" -> "[-options]"
             [] n = "dacapo" -> "[[n] benchmark] [VM options|@DaCapo options]"
             [] n = "example" -> "[-v] example names..."
             [] n = "unittest" -> "[filters...]"
             [] n = "vm" -> "[-options] class [args...]"
             [] OTHER -> "")]

SourceCommands ==
  [n \in {"export", "build"} |->
     Entry("commands", n,
           IF n = "export" THEN "[-options] [zipfile]"
           ELSE "[-options] [product|debug|fastdebug|optimized]...")]

\* The options mx_init registers when the native build sources are on disk.
VmbuildArguments == {"--product", "--debug", "--fastdebug", "--optimized"}

\* dict.update: the entries of b are added to a, replacing a's of that name.
Update(a, b) ==
  [n \in DOMAIN a \cup DOMAIN b |-> IF n \in DOMAIN b THEN b[n] ELSE a[n]]

\* The parts of the state mx_init and the dispatch table do not touch.
gateVars == <<i, d, log, now, total, t, exc, exitStatus, platformSystem,
              javaVersion, fs, res, cmdVars>>

\* Mutant of MxInit: the table is assigned instead of updated.
MxInitAssign ==
  /\ pc = "init"
  /\ commands' = IF _vmSourcesAvailable THEN Update(InitCommands, SourceCommands)
                 ELSE InitCommands
  /\ arguments' = IF _vmSourcesAvailable THEN arguments \cup VmbuildArguments
                  ELSE arguments
  /\ pc' = "parse"
  /\ UNCHANGED <<gateVars, _vmbuild, _vmSourcesAvailable>>

\* mx_init(): the commands of this module are added to mx.commands.  The
\* assignment of line 612 is to a local _vmbuild (there is no global
\* statement), so the module global is left as it is.
MxInit ==
  /\ pc = "init"
  /\ commands' = Update(commands,
                        IF _vmSourcesAvailable THEN Update(InitCommands, SourceCommands)
                        ELSE InitCommands)
  /\ arguments' = IF _vmSourcesAvailable THEN arguments \cup VmbuildArguments
                  ELSE arguments
  /\ pc' = "parse"
  /\ UNCHANGED <<gateVars, _vmbuild, _vmSourcesAvailable>>

\* Mutant of PostParse: the Java version is not checked.
PostParseNoVersionCheck ==
  /\ pc = "parse"
  /\ \E vmbuildOpt \in VmbuildOptions :
       _vmbuild' = IF _vmSourcesAvailable /\ vmbuildOpt # "none"
                   THEN vmbuildOpt ELSE _vmbuild
  /\ pc' = "gate"
  /\ UNCHANGED <<i, d, log, now, total, t, exc, exitStatus, _vmSourcesAvailable,
                 platformSystem, javaVersion, fs, res, mxVars, cmdVars>>

\* mx_post_parse_cmd_line(opts): the Java version is checked, then the
\* selected build variant is taken from the command line.
PostParse ==
  /\ pc = "parse"
  /\ \E vmbuildOpt \in VmbuildOptions :
       LET parts == javaVersion IN
       IF Len(parts) < 2 \/ parts[1] # 1
       THEN /\ Propagate([type |-> "exception", arg |-> Msg(<<"AssertionError">>)])
            /\ UNCHANGED _vmbuild
       ELSE IF ~(parts[2] >= 7)
       THEN /\ Propagate(MxAbort(Msg(<<"Requires Java version 1.7 or greater">>)))
            /\ UNCHANGED _vmbuild
       ELSE /\ _vmbuild' = IF _vmSourcesAvailable /\ vmbuildOpt # "none"
                           THEN vmbuildOpt ELSE _vmbuild
            /\ pc' = "gate"
            /\ UNCHANGED exc
  /\ UNCHANGED <<i, d, log, now, total, t, exitStatus, _vmSourcesAvailable,
                 platformSystem, javaVersion, fs, res, mxVars, cmdVars>>

\* Line 545: total = Task('Gate').
GateStart ==
  /\ pc = "gate"
  /\ total' = Task(GateTitle)
  /\ log' = Append(log, BeginLine(GateTitle))
  /\ i' = 1
  /\ pc' = "begin"
  /\ UNCHANGED <<d, now, t, exc, exitStatus, _vmbuild, _vmSourcesAvailable,
                 platformSystem, javaVersion, fs, res, mxVars, cmdVars>>

\* t = Task(title) of the next step; the loop of line 567 sets _vmbuild at
\* the start of each iteration.
BeginTask ==
  /\ pc = "begin"
  /\ _vmbuild' = IF StepName(i) = "BuildHotSpot:" THEN StepVariant(i) ELSE _vmbuild
  /\ t' = Task(StepTitle(i))
  /\ log' = Append(log, BeginLine(StepTitle(i)))
  /\ d' = 1
  /\ pc' = "check"
  /\ UNCHANGED <<i, now, total, exc, exitStatus, _vmSourcesAvailable,
                 platformSystem, javaVersion, fs, res, mxVars, cmdVars>>

\* A check that returns an exit code (lines 553-554 and 558-560): the code is
\* 0, or it is not and the step aborts with `reason`, or the check raised.
ReturnCodeCheck(reason, before) ==
  \/ /\ res' = [res EXCEPT ![i] = Ended("ok", NoArg)]
     /\ log' = log \o before
     /\ pc' = "stop"
     /\ UNCHANGED exc
  \/ /\ res' = [res EXCEPT ![i] = Ended("nonzero", reason)]
     /\ TaskAbort(t, reason, before)
  \/ \E m \in ExcMessages :
       /\ res' = [res EXCEPT ![i] = Ended("raise", Msg(m))]
       /\ log' = log \o before
       /\ Propagate([type |-> "exception", arg |-> Msg(m)])

Checkstyle ==
  /\ pc = "check"
  /\ StepName(i) = "Checkstyle"
  /\ ReturnCodeCheck(Msg(<<"Checkstyle warnings were found">>), <<>>)
  /\ UNCHANGED <<i, d, now, total, t, exitStatus, _vmbuild, _vmSourcesAvailable,
                 platformSystem, javaVersion, fs, mxVars, cmdVars>>

Canonicalization ==
  /\ pc = "check"
  /\ StepName(i) = "Canonicalization Check"
  /\ ReturnCodeCheck(Msg(<<"Rerun mx canonicalizeprojects">>),
                     LogLines(<<"Ensuring mx/projects files are canonicalized">>))
  /\ UNCHANGED <<i, d, now, total, t, exitStatus, _vmbuild, _vmSourcesAvailable,
                 platformSystem, javaVersion, fs, mxVars, cmdVars>>

\* Mutant of CommandEnds: a failure of the command is dropped and the step
\* goes on to t.stop().
CommandEndsSwallow(r) ==
  /\ fs' = r.fs
  /\ res' = [res EXCEPT ![i] = Ended(r.how, r.exc.arg)]
  /\ log' = log \o LogLines(r.logs)
  /\ pc' = "stop"
  /\ UNCHANGED exc

\* The call of a command that returns nothing: it returns and the step goes
\* on to t.stop(), or its failure propagates.
CommandEnds(r) ==
  /\ fs' = r.fs
  /\ res' = [res EXCEPT ![i] = Ended(r.how, r.exc.arg)]
  /\ log' = log \o LogLines(r.logs)
  /\ IF r.exc = NoExc THEN pc' = "stop" /\ UNCHANGED exc ELSE Propagate(r.exc)

\* Line 564: build(['--no-native']).
BuildJava ==
  /\ pc = "check"
  /\ StepName(i) = "BuildJava"
  /\ \E mxBuild \in MxBuildOutcomes : CommandEnds(build(TRUE, <<>>, mxBuild, <<>>, fs))
  /\ UNCHANGED <<i, d, now, total, t, exitStatus, _vmbuild, _vmSourcesAvailable,
                 platformSystem, javaVersion, mxVars, cmdVars>>

\* Line 572: build(['--no-java', vmbuild]).
BuildHotSpot ==
  /\ pc = "check"
  /\ StepName(i) = "BuildHotSpot:"
  /\ \E mxBuild \in MxBuildOutcomes, o \in NativeOutcomes(platformSystem) :
       CommandEnds(build(FALSE, <<StepVariant(i)>>, mxBuild, <<o>>, fs))
  /\ UNCHANGED <<i, d, now, total, t, exitStatus, _vmbuild, _vmSourcesAvailable,
                 platformSystem, javaVersion, mxVars, cmdVars>>

\* Mutant of Bootstrap: vm() stores the build it selected in the global.
BootstrapWritesVmbuild ==
  /\ pc = "check"
  /\ StepName(i) = "BootstrapWithSystemAssertions:"
  /\ \E run \in RunOutcomes : CommandEnds(vm("none", run, fs))
  /\ _vmbuild' = IF _vmSourcesAvailable THEN _vmbuild ELSE "product"
  /\ UNCHANGED <<i, d, now, total, t, exitStatus, _vmSourcesAvailable,
                 platformSystem, javaVersion, mxVars, cmdVars>>

\* Line 576: vm(['-esa', '-version']).
Bootstrap ==
  /\ pc = "check"
  /\ StepName(i) = "BootstrapWithSystemAssertions:"
  /\ \E run \in RunOutcomes : CommandEnds(vm("none", run, fs))
  /\ UNCHANGED <<i, d, now, total, t, exitStatus, _vmbuild, _vmSourcesAvailable,
                 platformSystem, javaVersion, mxVars, cmdVars>>

\* Line 580: unittest([]).
UnitTests ==
  /\ pc = "check"
  /\ StepName(i) = "UnitTests:"
  /\ \E scan \in ScanOutcomes, run \in RunOutcomes : CommandEnds(unittest(scan, run, fs))
  /\ UNCHANGED <<i, d, now, total, t, exitStatus, _vmbuild, _vmSourcesAvailable,
                 platformSystem, javaVersion, mxVars, cmdVars>>

\* Lines 584-586: one round of the loop over the gate's DaCapo benchmarks:
\* the loop is over, or benchmark d passes, fails (the step aborts) or raises.
DaCapo ==
  /\ pc = "check"
  /\ StepName(i) = "DaCapoBenchmarks:"
  /\ \/ /\ d > NumDacapo
        /\ res' = [res EXCEPT ![i] = Ended("ok", NoArg)]
        /\ pc' = "stop"
        /\ UNCHANGED <<d, log, exc>>
     \/ /\ d <= NumDacapo
        /\ d' = d + 1
        /\ UNCHANGED <<pc, log, exc, res>>
     \/ /\ d <= NumDacapo
        /\ res' = [res EXCEPT ![i] = Ended("false", Msg(<<"DaCapo", DacapoNames[d], "Failed">>))]
        /\ TaskAbort(t, Msg(<<"DaCapo", DacapoNames[d], "Failed">>), <<>>)
        /\ UNCHANGED d
     \/ /\ d <= NumDacapo
        /\ \E m \in ExcMessages :
             /\ res' = [res EXCEPT ![i] = Ended("raise", Msg(m))]
             /\ Propagate([type |-> "exception", arg |-> Msg(m)])
        /\ UNCHANGED <<d, log>>
  /\ UNCHANGED <<i, now, total, t, exitStatus, _vmbuild, _vmSourcesAvailable,
                 platformSystem, javaVersion, fs, mxVars, cmdVars>>

\* t.stop() of the current step; the next step follows, or the end of the
\* try block.
StopTask ==
  /\ pc = "stop"
  /\ log' = Append(log, EndLine(t))
  /\ IF i < NumSteps THEN i' = i + 1 /\ pc' = "begin"
     ELSE pc' = "end" /\ UNCHANGED i
  /\ UNCHANGED <<d, now, total, t, exc, exitStatus, _vmbuild, _vmSourcesAvailable,
                 platformSystem, javaVersion, fs, res, mxVars, cmdVars>>

\* Mutant of HandleException: the handler drops the failure (pass) and the
\* gate goes on to total.stop().
HandleExceptionSwallow ==
  /\ pc = "except"
  /\ exc' = NoExc
  /\ pc' = "end"
  /\ UNCHANGED <<i, d, log, now, total, t, exitStatus, _vmbuild, _vmSourcesAvailable,
                 platformSystem, javaVersion, fs, res, mxVars, cmdVars>>

\* Mutant of HandleException: the handler aborts with a message of its own
\* instead of str(e).
HandleExceptionOwnMessage ==
  /\ pc = "except"
  /\ log' = Append(log, Line("ABORT", total.title, Elapsed(now - total.start)))
  /\ exc' = [type |-> "abort", arg |-> Msg(<<"gate failed">>)]
  /\ pc' = "unwind"
  /\ UNCHANGED <<i, d, now, total, t, exitStatus, _vmbuild, _vmSourcesAvailable,
                 platformSystem, javaVersion, fs, res, mxVars, cmdVars>>

\* Lines 588-589: except Exception as e: total.abort(str(e)).
HandleException ==
  /\ pc = "except"
  /\ TaskAbort(total, Str(exc), <<>>)
  /\ UNCHANGED <<i, d, now, total, t, exitStatus, _vmbuild, _vmSourcesAvailable,
                 platformSystem, javaVersion, fs, res, mxVars, cmdVars>>

\* Line 591: total.stop(); gate returns.
GateStop ==
  /\ pc = "end"
  /\ log' = Append(log, EndLine(total))
  /\ pc' = "return"
  /\ UNCHANGED <<i, d, now, total, t, exc, exitStatus, _vmbuild,
                 _vmSourcesAvailable, platformSystem, javaVersion, fs, res, mxVars, cmdVars>>

\* The process exits: with 0 when the command returned, with the status of
\* the failure that left the program otherwise.
Exit ==
  /\ pc \in {"return", "unwind"}
  /\ exitStatus' = IF exc = NoExc THEN 0 ELSE ExitStatusOf(exc)
  /\ pc' = "exit"
  /\ UNCHANGED <<i, d, log, now, total, t, exc, _vmbuild, _vmSourcesAvailable,
                 platformSystem, javaVersion, fs, res, mxVars, cmdVars>>

\* Time passes while the process runs.
Tick ==
  /\ pc # "exit"
  /\ now < MaxTime
  /\ now' = now + 1
  /\ UNCHANGED <<pc, i, d, log, total, t, exc, exitStatus, _vmbuild,
                 _vmSourcesAvailable, platformSystem, javaVersion, fs, res, mxVars, cmdVars>>

Next ==
  \/ MxInit
  \/ PostParse
  \/ GateStart
  \/ BeginTask
  \/ Checkstyle
  \/ Canonicalization
  \/ BuildJava
  \/ BuildHotSpot
  \/ Bootstrap
  \/ UnitTests
  \/ DaCapo
  \/ StopTask
  \/ HandleException
  \/ GateStop
  \/ Exit
  \/ Tick

Spec == Init /\ [][Next]_vars

\* mx_init alone, on any table the front end may hold before it.
MxTables == {[n \in names |-> Entry("mx", n, "")] : names \in SUBSET MxNames}

InitMxInit ==
  /\ pc = "init"
  /\ commands \in MxTables
  /\ arguments = {}
  /\ args = <<>>
  /\ ExportIdle
  /\ UnittestIdle
  /\ DacapoIdle
  /\ JdkIdle
  /\ i = 0
  /\ d = 0
  /\ log = <<>>
  /\ now = 0
  /\ total = NoTask
  /\ t = NoTask
  /\ exc = NoExc
  /\ exitStatus = -1
  /\ _vmbuild = "product"
  /\ _vmSourcesAvailable \in BOOLEAN
  /\ platformSystem = "Linux"
  /\ javaVersion = <<1, 7>>
  /\ fs = FreshFs
  /\ res = [k \in StepIds |-> NotInvoked]

NextMxInit == MxInit

SpecMxInit == InitMxInit /\ [][NextMxInit]_vars

\* ------------------------------------------------------- reading the log

\* The positions of the log with a line of the given kind and title.
LinesOf(kind, title) ==
  {p \in DOMAIN log : log[p].kind = kind /\ log[p].title = title}

Begun(k) == LinesOf("BEGIN", StepTitle(k)) # {}

EndedStep(k) == LinesOf("END", StepTitle(k)) # {}

AbortedStep(k) == LinesOf("ABORT", StepTitle(k)) # {}

Invoked(k) == res[k].how # "none"

GateEnded == LinesOf("END", GateTitle) # {}

GateAborted == LinesOf("ABORT", GateTitle) # {}

AllStepsEnded == \A k \in StepIds : EndedStep(k)

\* The ways a check ends that are failures of the check.
FailedHows == {"nonzero", "false", "raise", "config", "nativefail"}

\* The titles of the gate's steps, in the order the gate declares them.
DeclaredTitles ==
  << <<"Checkstyle">>, <<"Canonicalization Check">>, <<"BuildJava">>,
     <<"BuildHotSpot:", "product">>,
     <<"BootstrapWithSystemAssertions:", "product">>,
     <<"UnitTests:", "product">>,
     <<"DaCapoBenchmarks:", "product">>,
     <<"BuildHotSpot:", "fastdebug">>,
     <<"BootstrapWithSystemAssertions:", "fastdebug">>,
     <<"UnitTests:", "fastdebug">>,
     <<"DaCapoBenchmarks:", "fastdebug">> >>

\* ---------------------------------------------------------------- claims

\* C1: if step a of the gate aborts, no later step b ever begins: there is no
\* BEGIN line for b and b's external check is never invoked.
C1_AbortStopsLaterSteps ==
  \A a \in StepIds :
    AbortedStep(a) => \A b \in StepIds : a < b => (~Begun(b) /\ ~Invoked(b))

\* The Canonicalization Check aborted after Checkstyle ended, and the process
\* has exited.
C1_Witness ==
  /\ pc = "exit"
  /\ EndedStep(1)
  /\ AbortedStep(2)

\* C2: the process exits with status 0 exactly when every gate step has
\* completed (reached stop()); once a step has aborted the status is not 0.
C2_ExitStatus ==
  pc = "exit" =>
    /\ (exitStatus = 0) <=> AllStepsEnded
    /\ (\E k \in StepIds : AbortedStep(k)) => exitStatus # 0

\* The process has exited with status 0 after all steps completed.
C2_Witness ==
  /\ pc = "exit"
  /\ exitStatus = 0
  /\ AllStepsEnded

\* C3: 'Gate' logs END only if every step of the sequence logged END, and a
\* gate that was started has, at exit, logged END if every step logged END
\* and ABORT otherwise (never both).
C3_OverallOutcome ==
  /\ GateEnded => AllStepsEnded
  /\ ~(GateEnded /\ GateAborted)
  /\ (pc = "exit" /\ total # NoTask) =>
       /\ GateEnded <=> AllStepsEnded
       /\ ~GateEnded => GateAborted

\* The gate ended as aborted, in a step of the second loop iteration, with
\* the first iteration's steps completed.
C3_Witness ==
  /\ pc = "exit"
  /\ GateAborted
  /\ \A k \in 1..7 : EndedStep(k)
  /\ Begun(8)
  /\ ~EndedStep(8)

\* C4 (as claimed): every started Task ('Gate' and every step) has exactly one
\* terminal line, END or ABORT, when the process exits, and never more than
\* one.
C4_ExactlyOneTerminal ==
  LET terminals(title) == LinesOf("END", title) \cup LinesOf("ABORT", title) IN
  /\ \A k \in StepIds : Cardinality(terminals(StepTitle(k))) <= 1
  /\ Cardinality(terminals(GateTitle)) <= 1
  /\ pc = "exit" =>
       /\ \A k \in StepIds : Begun(k) => Cardinality(terminals(StepTitle(k))) = 1
       /\ total # NoTask => Cardinality(terminals(GateTitle)) = 1

\* C5: when an inner step has called abort(reason), the failure is on its way
\* to the handler, and once handled an ABORT line for 'Gate' follows the
\* step's ABORT line and the process ends with the step's reason.
C5_InnerAbortAbortsGate ==
  \A k \in StepIds :
    AbortedStep(k) =>
      /\ pc \in {"except", "unwind", "exit"}
      /\ pc # "except" =>
           /\ \E p \in LinesOf("ABORT", StepTitle(k)), q \in LinesOf("ABORT", GateTitle) :
                p < q
           /\ exc = MxAbort(Msg(res[k].arg.v))

\* A DaCapo benchmark of the product VM failed; the process has exited.
C5_Witness ==
  /\ pc = "exit"
  /\ AbortedStep(7)
  /\ res[7].how = "false"

\* C6: an exception raised by a step's check is caught by gate's handler: no
\* later step begins, 'Gate' never logs END, and once handled 'Gate' has
\* logged ABORT and the process ends with the exception's message.
C6_ExceptionAbortsGate ==
  \A k \in StepIds :
    res[k].how = "raise" =>
      /\ \A b \in StepIds : b > k => ~Begun(b)
      /\ ~GateEnded
      /\ pc \in {"except", "unwind", "exit"}
      /\ pc # "except" => (GateAborted /\ exc = MxAbort(Msg(res[k].arg.v)))

\* BuildJava raised; the process has exited.
C6_Witness ==
  /\ pc = "exit"
  /\ res[3].how = "raise"
  /\ exitStatus = 1

\* C7 (as claimed): whenever the external check of a step failed, no later
\* step begins and 'Gate' does not log END.
C7_CheckFailureIsFatal ==
  \A k \in StepIds :
    res[k].how \in FailedHows =>
      /\ \A b \in StepIds : b > k => ~Begun(b)
      /\ ~GateEnded

\* C8: the BEGIN lines of the steps are, in order, the first titles of the
\* declared sequence (so each step begins at most once, in declaration order),
\* and a step begins only after the step before it has logged END.
C8_DeclarationOrder ==
  LET begins == SelectSeq(log, LAMBDA l : l.kind = "BEGIN" /\ l.title # GateTitle) IN
  /\ Len(begins) <= Len(DeclaredTitles)
  /\ \A n \in DOMAIN begins : begins[n].title = DeclaredTitles[n]
  /\ \A n \in DOMAIN begins :
       n > 1 =>
         \E p \in LinesOf("BEGIN", DeclaredTitles[n]),
            q \in LinesOf("END", DeclaredTitles[n - 1]) : q < p

\* The last step of the sequence has begun.
C8_Witness ==
  /\ Len(SelectSeq(log, LAMBDA l : l.kind = "BEGIN" /\ l.title # GateTitle)) = 11
  /\ pc = "check"

UnsupportedJava ==
  Len(javaVersion) < 2 \/ javaVersion[1] # 1 \/ javaVersion[2] < 7

\* C10 (as claimed): when a configuration error is reported (an unsupported
\* Java version, or a missing directory or file of the JDK), no step of the
\* gate has begun.
C10_ConfigErrorBeforeAnyStep ==
  ((pc \notin {"init", "parse"} /\ UnsupportedJava) \/ (\E k \in StepIds : res[k].how = "config"))
    => \A b \in StepIds : ~Begun(b)

\* C10 (amended): an unsupported Java version stops the process in
\* mx_post_parse_cmd_line with nothing logged and a status other than 0.  A
\* missing directory or file of the JDK is found by _jdk inside the
\* BuildHotSpot or BootstrapWithSystemAssertions step of the product variant:
\* the steps before it have ended, no later step begins, 'Gate' does not END
\* and the exit status is not 0.
C10_ConfigErrors ==
  /\ UnsupportedJava =>
       /\ pc \in {"init", "parse", "unwind", "exit"}
       /\ log = <<>>
       /\ pc = "exit" => exitStatus # 0
  /\ \A k \in StepIds :
       res[k].how = "config" =>
         /\ StepName(k) \in {"BuildHotSpot:", "BootstrapWithSystemAssertions:"}
         /\ StepVariant(k) = "product"
         /\ \A a \in StepIds : a < k => EndedStep(a)
         /\ Begun(k)
         /\ \A b \in StepIds : b > k => ~Begun(b)
         /\ ~GateEnded
         /\ pc = "exit" => exitStatus # 0

\* jvm.cfg was found missing in the product BuildHotSpot step, after three
\* steps had ended; the process has exited.
C10_Witness ==
  /\ pc = "exit"
  /\ res[4].how = "config"
  /\ res[4].arg = Msg(<<"jvm.cfg does not exist">>)
  /\ EndedStep(3)

\* C11 (as claimed): _vmbuild is written only by mx_post_parse_cmd_line; no
\* step of the process after it changes the flag.
C11_WrittenOnlyInPostParse ==
  [][pc # "parse" => _vmbuild' = _vmbuild]_vars

\* C11 (amended): _vmbuild changes only in mx_post_parse_cmd_line (when the
\* native sources are present) and in gate, which assigns the loop's variant
\* at the start of each iteration; mx_init, build, vm and unittest leave it.
C11_WrittenInPostParseAndGate ==
  [][_vmbuild' # _vmbuild =>
       \/ pc = "parse" /\ _vmSourcesAvailable
       \/ /\ pc = "begin"
          /\ StepName(i) = "BuildHotSpot:"
          /\ _vmbuild' = StepVariant(i)]_vars

\* gate has assigned 'fastdebug' in its second iteration and the VM of that
\* iteration is about to run.
C11_Witness ==
  /\ pc = "check"
  /\ StepName(i) = "BootstrapWithSystemAssertions:"
  /\ StepVariant(i) = "fastdebug"
  /\ _vmbuild = "fastdebug"

\* C12: mx_init only adds to the dispatch table: every name registered before
\* it is registered after it, the eleven commands of this module are
\* registered after it, and 'export' and the build entry that takes build
\* variants are entries of this module after it exactly when the native build
\* sources are present.
C12_RegistrationIsAdditive ==
  [][pc = "init" =>
       /\ DOMAIN commands \subseteq DOMAIN commands'
       /\ \A n \in DOMAIN commands :
            n \notin (DOMAIN InitCommands \cup {"export"}) => commands'[n] = commands[n]
       /\ {"build", "clean", "copyrightcheck", "dacapo", "specjvm2008", "example",
           "gate", "bench", "unittest", "vm", "ideinit"} \subseteq DOMAIN commands'
       /\ \A n \in {"clean", "copyrightcheck", "dacapo", "specjvm2008", "example",
                     "gate", "bench", "unittest", "vm", "ideinit"} :
            commands'[n].handler = <<"commands", n>>
       /\ commands'["build"].handler = <<"commands", "build">>
       /\ (commands'["build"].usage = "[-options] [product|debug|fastdebug|optimized]...")
            <=> _vmSourcesAvailable
       /\ ("export" \in DOMAIN commands' /\ commands'["export"].handler = <<"commands", "export">>)
            <=> _vmSourcesAvailable
       /\ ("export" \in DOMAIN commands' /\ ~_vmSourcesAvailable) =>
            ("export" \in DOMAIN commands /\ commands'["export"] = commands["export"])]_vars

\* mx_init has run with the native sources present on a table that held
\* 'help' and mx's own 'build': 'help' is kept, 'export' is registered.
C12_Witness ==
  /\ pc = "parse"
  /\ _vmSourcesAvailable
  /\ "help" \in DOMAIN commands
  /\ commands["help"].handler = <<"mx", "help">>
  /\ commands["export"].handler = <<"commands", "export">>
  /\ commands["build"].usage = "[-options] [product|debug|fastdebug|optimized]..."


\* ---------------------------------------------------------- export

\* A command other than gate is about to run: mx_init has registered the
\* commands, the command line was parsed, gate is not running.
CommandStarts ==
  /\ commands = Update(MxCommands,
                       IF _vmSourcesAvailable THEN Update(InitCommands, SourceCommands)
                       ELSE InitCommands)
  /\ arguments = IF _vmSourcesAvailable THEN VmbuildArguments ELSE {}
  /\ javaVersion = <<1, 7>>
  /\ GateIdle
  /\ ProcessStarts

\* A command called outside gate's try block ends: what it logged and left
\* on disk is kept, and the caller goes on at `next` unless it failed.
Leaves(r, next) ==
  /\ fs' = r.fs
  /\ log' = log \o LogLines(r.logs)
  /\ IF r.exc = NoExc THEN pc' = next /\ UNCHANGED exc ELSE Propagate(r.exc)

\* The argument lists of export: its two options, in any combination.
ExportArgs == {<<>>, <<"--omit-vm-build">>, <<"--omit-dist-init">>,
               <<"--omit-vm-build", "--omit-dist-init">>}

\* An option of action store_false: True unless the option is given.
StoreFalse(a, option) == \A k \in 1..Len(a) : a[k] # option

\* What the steps of export put into the temporary directory.
Sources == "sources"

JdkCopy == "jdk"

ClassFiles == "class files"

IdeConfigs == "IDE configurations"

\* Lines 57-64: the arguments are parsed, the temporary directory is made.
ExportParse ==
  /\ pc = "export"
  /\ tmp' = Dir({})
  /\ pc' = "export_build"
  /\ UNCHANGED <<i, d, log, now, total, t, exc, exitStatus, _vmbuild, _vmSourcesAvailable,
                 platformSystem, javaVersion, fs, res, mxVars, args, zip,
                 unittestVars, dacapoVars, calls>>

\* Lines 65-67: build(['product']) unless --omit-vm-build.
ExportBuild ==
  /\ pc = "export_build"
  /\ IF StoreFalse(args, "--omit-vm-build")
     THEN \E mxBuild \in MxBuildOutcomes, o \in NativeOutcomes(platformSystem) :
            Leaves(build(FALSE, <<"product">>, mxBuild, <<o>>, fs), "export_archive")
     ELSE pc' = "export_archive" /\ UNCHANGED <<fs, log, exc>>
  /\ UNCHANGED <<i, d, now, total, t, exitStatus, _vmbuild, _vmSourcesAvailable,
                 platformSystem, javaVersion, res, mxVars, cmdVars>>

\* Lines 69-70: hg archive into the temporary directory.
ExportArchive ==
  /\ pc = "export_archive"
  /\ \E run \in RunOutcomes :
       /\ Leaves(Result(fs, run.how, FailureOf(run),
                        <<"Copying Java sources and mx files...">>), "export_jdk")
       /\ tmp' = IF run.how = "ok" THEN Dir(tmp.files \cup {Sources}) ELSE tmp
  /\ UNCHANGED <<i, d, now, total, t, exitStatus, _vmbuild, _vmSourcesAvailable,
                 platformSystem, javaVersion, res, mxVars, args, zip,
                 unittestVars, dacapoVars, calls>>

\* Lines 73-76: _jdk() and the copy of the JDK it returns.
ExportCopyJdk ==
  /\ pc = "export_jdk"
  /\ LET j == _jdk("product", FALSE, fs) IN
       /\ Leaves(Result(j.fs, j.out, IF j.out = "ok" THEN NoExc ELSE JdkFailure(j),
                        <<"Copying GraalVM JDK...">> \o j.logs), "export_zip")
       /\ tmp' = IF j.out = "ok" THEN Dir(tmp.files \cup {JdkCopy}) ELSE tmp
  /\ UNCHANGED <<i, d, now, total, t, exitStatus, _vmbuild, _vmSourcesAvailable,
                 platformSystem, javaVersion, res, mxVars, args, zip,
                 unittestVars, dacapoVars, calls>>

\* Lines 77-83: every file os.walk finds in the temporary directory is
\* written to the zip.
ExportZip ==
  /\ pc = "export_zip"
  /\ zip' = Dir(tmp.files)
  /\ pc' = "export_distinit"
  /\ UNCHANGED <<i, d, log, now, total, t, exc, exitStatus, _vmbuild, _vmSourcesAvailable,
                 platformSystem, javaVersion, fs, res, mxVars, args, tmp,
                 unittestVars, dacapoVars, calls>>

\* Lines 86-90: unless --omit-dist-init, 'mx build' and then 'mx ideinit'
\* run in the temporary directory; the first that fails aborts.
ExportDistInit ==
  /\ pc = "export_distinit"
  /\ IF StoreFalse(args, "--omit-dist-init")
     THEN \E mxBuild \in RunOutcomes, ideinit \in RunOutcomes :
            IF mxBuild.how # "ok"
            THEN /\ Leaves(Result(fs, mxBuild.how, FailureOf(mxBuild),
                                  <<"Creating class files...">>), "export_cleanup")
                 /\ UNCHANGED tmp
            ELSE /\ Leaves(Result(fs, ideinit.how, FailureOf(ideinit),
                                  <<"Creating class files...",
                                    "Creating IDE configurations...">>), "export_cleanup")
                 /\ tmp' = Dir(tmp.files \cup {ClassFiles}
                                 \cup (IF ideinit.how = "ok" THEN {IdeConfigs} ELSE {}))
     ELSE pc' = "export_cleanup" /\ UNCHANGED <<fs, log, exc, tmp>>
  /\ UNCHANGED <<i, d, now, total, t, exitStatus, _vmbuild, _vmSourcesAvailable,
                 platformSystem, javaVersion, res, mxVars, args, zip,
                 unittestVars, dacapoVars, calls>>

\* Lines 93-96: the temporary directory is removed and export returns.
ExportCleanup ==
  /\ pc = "export_cleanup"
  /\ tmp' = NoDir
  /\ log' = log \o LogLines(<<"Cleaning up...", "Created distribution in">>)
  /\ pc' = "return"
  /\ UNCHANGED <<i, d, now, total, t, exc, exitStatus, _vmbuild, _vmSourcesAvailable,
                 platformSystem, javaVersion, fs, res, mxVars, args, zip,
                 unittestVars, dacapoVars, calls>>

\* mx export: export is registered only when the native build sources are
\* on disk (line 636).
InitExport ==
  /\ pc = "export"
  /\ args \in ExportArgs
  /\ _vmSourcesAvailable = TRUE
  /\ _vmbuild = "product"
  /\ platformSystem \in {"Linux", "Windows"}
  /\ fs \in StartFs
  /\ CommandStarts
  /\ ExportIdle
  /\ UnittestIdle
  /\ DacapoIdle
  /\ JdkIdle

NextExport ==
  \/ ExportParse
  \/ ExportBuild
  \/ ExportArchive
  \/ ExportCopyJdk
  \/ ExportZip
  \/ ExportDistInit
  \/ ExportCleanup
  \/ Exit

SpecExport == InitExport /\ [][NextExport]_vars

\* C13: when export has returned, the distribution zip holds the class
\* files and the IDE configurations unless --omit-dist-init was given, and
\* holds neither when it was given.
C13_ZipHoldsDistInit ==
  pc = "return" /\ zip.exists =>
    IF StoreFalse(args, "--omit-dist-init")
    THEN {ClassFiles, IdeConfigs} \subseteq zip.files
    ELSE {ClassFiles, IdeConfigs} \cap zip.files = {}

\* C13, what the code does: the zip never holds class files or IDE
\* configurations, with or without --omit-dist-init.
C13_ZipNeverHoldsDistInit == {ClassFiles, IdeConfigs} \cap zip.files = {}


\* -------------------------------------------------------- unittest

\* A string of Python is the sequence of its characters.  The arguments of
\* unittest: the empty string, filter words, and filter words with the '-'
\* prefix (the '-' alone among them).
FilterWords == {<<"a">>, <<"b">>, <<"a", "b">>}

UnittestArgStrings ==
  {<<>>} \cup FilterWords \cup {<<"-">> \o w : w \in FilterWords \cup {<<>>}}

\* The sequences over S of at most n elements.
SeqsUpTo(S, n) == UNION {[1..k -> S] : k \in 0..n}

UnittestArgs == SeqsUpTo(UnittestArgStrings, MaxArgs)

\* The fully qualified names of the classes with a @Test line, and the
\* lists of them _add_test_classes can build (os.walk gives the order).
TestClassNames == {<<"a", "b">>, <<"b", "a">>, <<"a", "a">>}

TestClassLists == SeqsUpTo(TestClassNames, MaxClasses)

\* Line 503: a[0] raises IndexError on an empty argument.
HasEmptyArg(a) == \E k \in 1..Len(a) : a[k] = <<>>

\* Lines 503-504, on arguments that are not empty.
pos(a) == LET Positive(x) == x[1] # "-" IN SelectSeq(a, Positive)

neg(a) ==
  LET Negative(x) == x[1] = "-"
      minus == SelectSeq(a, Negative)
  IN [k \in 1..Len(minus) |-> Tail(minus[k])]

\* Mutant of containsAny: every substring must occur.
containsAll(c, substrings) ==
  \A k \in 1..Len(substrings) : Contains(c, substrings[k])

\* Lines 506-510.
containsAny(c, substrings) ==
  \E k \in 1..Len(substrings) : Contains(c, substrings[k])

\* Lines 518-521: the classes the filters keep.
Filtered(cs, a) ==
  LET InPos(c) == containsAny(c, pos(a))
      NotInNeg(c) == ~containsAny(c, neg(a))
      afterPos == IF Len(pos(a)) # 0 THEN SelectSeq(cs, InPos) ELSE cs
  IN IF Len(neg(a)) # 0 THEN SelectSeq(afterPos, NotInNeg) ELSE afterPos

\* Lines 503-504: the filters are taken from the arguments.
UnittestFilters ==
  /\ pc = "unittest"
  /\ IF HasEmptyArg(args) THEN Propagate(Raise(<<"IndexError">>))
     ELSE pc' = "unittest_scan" /\ UNCHANGED exc
  /\ UNCHANGED <<i, d, log, now, total, t, exitStatus, _vmbuild, _vmSourcesAvailable,
                 platformSystem, javaVersion, fs, res, mxVars, cmdVars>>

\* Lines 512-516: the sources of the project are scanned for test classes.
UnittestScan ==
  /\ pc = "unittest_scan"
  /\ \E scan \in ScanOutcomes, found \in TestClassLists :
       IF scan.how = "ok"
       THEN classes' = found /\ pc' = "unittest_run" /\ UNCHANGED exc
       ELSE Propagate(FailureOf(scan)) /\ UNCHANGED classes
  /\ UNCHANGED <<i, d, log, now, total, t, exitStatus, _vmbuild, _vmSourcesAvailable,
                 platformSystem, javaVersion, fs, res, mxVars, args, junit,
                 exportVars, dacapoVars, calls>>

\* Lines 518-524: the classes are filtered and the VM runs JUnitCore on
\* those that are kept; the VM does not start when _jdk fails.
UnittestRun ==
  /\ pc = "unittest_run"
  /\ \E run \in RunOutcomes :
       LET r == vm("none", run, fs) IN
       /\ Leaves(r, "return")
       /\ junit' = IF r.how \in {"config", "raise"} THEN junit
                   ELSE Started(Filtered(classes, args))
  /\ UNCHANGED <<i, d, now, total, t, exitStatus, _vmbuild, _vmSourcesAvailable,
                 platformSystem, javaVersion, res, mxVars, args, classes,
                 exportVars, dacapoVars, calls>>

\* mx unittest [filters...]
InitUnittest ==
  /\ pc = "unittest"
  /\ args \in UnittestArgs
  /\ _vmSourcesAvailable = TRUE
  /\ _vmbuild = "product"
  /\ platformSystem = "Linux"
  /\ fs \in {InstalledFs, FreshFs, [FreshFs EXCEPT !.hostCfg = NoFile]}
  /\ CommandStarts
  /\ ExportIdle
  /\ UnittestIdle
  /\ DacapoIdle
  /\ JdkIdle

NextUnittest ==
  \/ UnittestFilters
  \/ UnittestScan
  \/ UnittestRun
  \/ Exit

SpecUnittest == InitUnittest /\ [][NextUnittest]_vars

\* The filters as the documentation of unittest gives them: an argument with
\* a '-' prefix is a negative filter, taken without the prefix; any other
\* argument is a positive filter.
IsNegativeArg(a) == Len(a) > 0 /\ a[1] = "-"

NegativeFilters == {Tail(args[k]) : k \in {j \in 1..Len(args) : IsNegativeArg(args[j])}}

PositiveFilters == {args[k] : k \in {j \in 1..Len(args) : ~IsNegativeArg(args[j])}}

PassedToJUnit(c) == \E k \in 1..Len(junit.classes) : junit.classes[k] = c

Discovered == {classes[k] : k \in 1..Len(classes)}

\* C14: once JUnitCore is started, a discovered test class is among its
\* arguments if and only if there is no positive filter or its name contains
\* one, and its name contains no negative filter.
C14_FilterSelectsClasses ==
  junit.started =>
    \A c \in Discovered :
      PassedToJUnit(c) <=>
        /\ PositiveFilters = {} \/ \E f \in PositiveFilters : Contains(c, f)
        /\ \A f \in NegativeFilters : ~Contains(c, f)

\* C14: JUnitCore was started with positive and negative filters given; one
\* class was passed, one was dropped by a negative filter and one was
\* dropped because it has no positive filter in its name.
C14_Witness ==
  /\ junit.started
  /\ PositiveFilters # {}
  /\ NegativeFilters # {}
  /\ \E c \in Discovered : PassedToJUnit(c)
  /\ \E c \in Discovered :
       /\ \E f \in PositiveFilters : Contains(c, f)
       /\ \E f \in NegativeFilters : Contains(c, f)
       /\ ~PassedToJUnit(c)


\* ---------------------------------------------------------- dacapo

\* The benchmarks of sanitycheck.dacapoSanityWarmup.
Benchmarks == {DacapoNames[k] : k \in 1..NumDacapo}

\* The words a command line of dacapo is made of: a sanity check level, a
\* number, benchmark names (one of them unknown), a VM option, a DaCapo
\* option and the empty string.
Levels == {"Gate"}

Digits == {"2"}

Options == {"-esa", "@-n"}

DacapoWords == Levels \cup Digits \cup Benchmarks \cup Options \cup {"nosuch", ""}

DacapoArgs == SeqsUpTo(DacapoWords, MaxArgs)

\* int(a) of a word that isdigit().
IntOf(a) == IF a = "2" THEN 2 ELSE 0

\* dacapoSanityWarmup[bench][level]: the iterations of the k-th benchmark
\* at the level; the first has none.
Warmup(bench, level) ==
  CHOOSE n \in 0..NumDacapo : DacapoNames[n + 1] = bench

\* What the selection of lines 147-173 leaves: numTests, or a failure.
Selected(nt) == [numTests |-> nt, exc |-> NoExc]

NotSelected(e) == [numTests |-> <<>>, exc |-> e]

\* Lines 156-169: the loop over the leading arguments that are not options.
RECURSIVE SelectByName(_, _)
SelectByName(a, nt) ==
  LET Take(bm, n, rest) ==
        IF bm \notin Benchmarks
        THEN NotSelected(MxAbort(Msg(<<"unknown benchmark:", bm>>)))
        ELSE SelectByName(rest, Update(nt, [b \in {bm} |-> n]))
  IN
  IF a = <<>> THEN Selected(nt)
  ELSE IF Head(a) = "" THEN NotSelected(Raise(<<"IndexError">>))
  ELSE IF Head(a) \in Options THEN Selected(nt)
  ELSE IF Head(a) \in Digits
  THEN IF ~(Len(a) > 1) THEN NotSelected(Raise(<<"AssertionError">>))
       ELSE IF a[2] = "" THEN NotSelected(Raise(<<"IndexError">>))
       ELSE IF a[2] \in Options \/ a[2] \in Digits
       THEN NotSelected(Raise(<<"AssertionError">>))
       ELSE Take(a[2], IntOf(a[1]), Tail(Tail(a)))
  ELSE Take(a[1], 1, Tail(a))

\* Lines 147-173: the benchmarks of a level, or those named, or all.
Selection(a) ==
  LET all == [b \in Benchmarks |-> 1]
      named == IF a = <<>> THEN Selected(<<>>)
               ELSE IF Head(a) \in Levels
               THEN Selected([b \in {c \in Benchmarks : Warmup(c, Head(a)) > 0} |->
                                Warmup(b, Head(a))])
               ELSE SelectByName(a, <<>>)
  IN IF named.exc = NoExc /\ DOMAIN named.numTests = {} THEN Selected(all) ELSE named

\* Line 147-173.
DacapoSelect ==
  /\ pc = "dacapo"
  /\ LET sel == Selection(args) IN
       IF sel.exc = NoExc
       THEN numTests' = sel.numTests /\ pc' = "dacapo_loop" /\ UNCHANGED exc
       ELSE Propagate(sel.exc) /\ UNCHANGED numTests
  /\ UNCHANGED <<i, d, log, now, total, t, exitStatus, _vmbuild, _vmSourcesAvailable,
                 platformSystem, javaVersion, fs, res, mxVars, args, failed, runs,
                 exportVars, unittestVars, calls>>

\* The ways test() of a benchmark ends: it returns True or False, or raises.
TestOutcomes == {"passed", "failed", "raised"}

\* A benchmark that was run: its name, its iterations and how test() ended.
Run(test, n, outcome) == [test |-> test, n |-> n, outcome |-> outcome]

\* The benchmarks the loop of line 182 has not reached.
Remaining == DOMAIN numTests \ {runs[k].test : k \in 1..Len(runs)}

\* Mutant of DacapoTest: the command aborts at the first benchmark that fails.
DacapoTestAbortsAtFailure ==
  /\ pc = "dacapo_loop"
  /\ \E test \in Remaining, outcome \in TestOutcomes :
       /\ runs' = Append(runs, Run(test, numTests[test], outcome))
       /\ failed' = IF outcome = "failed" THEN Append(failed, test) ELSE failed
       /\ IF outcome = "raised" THEN \E m \in ExcMessages : Propagate(Raise(m))
          ELSE IF outcome = "failed"
          THEN Propagate(MxAbort(Msg(<<"DaCapo failures:", test>>)))
          ELSE UNCHANGED <<pc, exc>>
  /\ UNCHANGED <<i, d, log, now, total, t, exitStatus, _vmbuild, _vmSourcesAvailable,
                 platformSystem, javaVersion, fs, res, mxVars, args, numTests,
                 exportVars, unittestVars, calls>>

\* Lines 182-184: one round of the loop over numTests.items(), in the order
\* the dict gives: the benchmark is run and is appended to failed when
\* test() returns False; an exception of test() leaves the command.
DacapoTest ==
  /\ pc = "dacapo_loop"
  /\ \E test \in Remaining, outcome \in TestOutcomes :
       /\ runs' = Append(runs, Run(test, numTests[test], outcome))
       /\ failed' = IF outcome = "failed" THEN Append(failed, test) ELSE failed
       /\ IF outcome = "raised" THEN \E m \in ExcMessages : Propagate(Raise(m))
          ELSE UNCHANGED <<pc, exc>>
  /\ UNCHANGED <<i, d, log, now, total, t, exitStatus, _vmbuild, _vmSourcesAvailable,
                 platformSystem, javaVersion, fs, res, mxVars, args, numTests,
                 exportVars, unittestVars, calls>>

\* Lines 186-187: after the loop, mx.abort when a benchmark failed.
DacapoEnd ==
  /\ pc = "dacapo_loop"
  /\ Remaining = {}
  /\ IF Len(failed) # 0 THEN Propagate(MxAbort(Msg(<<"DaCapo failures:">> \o failed)))
     ELSE pc' = "return" /\ UNCHANGED exc
  /\ UNCHANGED <<i, d, log, now, total, t, exitStatus, _vmbuild, _vmSourcesAvailable,
                 platformSystem, javaVersion, fs, res, mxVars, cmdVars>>

\* mx dacapo [[n] benchmark] [VM options|@DaCapo options]
InitDacapo ==
  /\ pc = "dacapo"
  /\ args \in DacapoArgs
  /\ _vmSourcesAvailable = TRUE
  /\ _vmbuild = "product"
  /\ platformSystem = "Linux"
  /\ fs = InstalledFs
  /\ CommandStarts
  /\ ExportIdle
  /\ UnittestIdle
  /\ DacapoIdle
  /\ JdkIdle

NextDacapo ==
  \/ DacapoSelect
  \/ DacapoTest
  \/ DacapoEnd
  \/ Exit

SpecDacapo == InitDacapo /\ [][NextDacapo]_vars

\* How often benchmark b was run, and the benchmarks whose test() returned
\* False.
TimesRun(b) == Cardinality({k \in 1..Len(runs) : runs[k].test = b})

FailedRuns == {runs[k].test : k \in {j \in 1..Len(runs) : runs[j].outcome = "failed"}}

\* The command aborted for failed benchmarks, and the names its message lists.
AbortedForFailures ==
  exc.type = "abort" /\ exc.arg.v # <<>> /\ Head(exc.arg.v) = "DaCapo failures:"

ListedFailures == {exc.arg.v[k] : k \in 2..Len(exc.arg.v)}

\* C15: no benchmark is run twice; when dacapo returns or aborts for failed
\* benchmarks, every selected benchmark was run exactly once; it aborts then
\* if and only if some test() returned False, and the message lists each
\* failed benchmark once and nothing else.
C15_AllRunThenAbort ==
  /\ \A b \in Benchmarks : TimesRun(b) <= 1
  /\ pc = "return" \/ AbortedForFailures =>
       /\ \A b \in DOMAIN numTests : TimesRun(b) = 1
       /\ \A k \in 1..Len(runs) : runs[k].test \in DOMAIN numTests
       /\ AbortedForFailures <=> FailedRuns # {}
       /\ AbortedForFailures =>
            /\ ListedFailures = FailedRuns
            /\ Len(exc.arg.v) = 1 + Cardinality(FailedRuns)

\* C15: dacapo aborted for failures after a benchmark that passed was run
\* after one that failed.
C15_Witness ==
  /\ AbortedForFailures
  /\ \E j \in 1..Len(runs), k \in 1..Len(runs) :
       j < k /\ runs[j].outcome = "failed" /\ runs[k].outcome = "passed"


\* ------------------------------------------------- calls of _jdk

\* The build types _jdk is called with, one of them unknown to it.
JdkBuilds == {"product"} \cup VariantBuilds \cup {"server"}

\* A jvm.cfg whose text does not end with a newline.
Unterminated(ls) == [File(ls) EXCEPT !.eol = FALSE]

\* The file systems a sequence of calls can start from: those of StartFs,
\* an installed JDK whose jvm.cfg lacks the line, has it inside a longer line
\* or has no final newline, and a host jvm.cfg with no final newline.
JdkStartFs ==
  StartFs \cup
  { [InstalledFs EXCEPT !.jvmCfg = File(<<ServerKnown>>)],
    [InstalledFs EXCEPT !.jvmCfg = File(<<<<"#">> \o GraalKnown \o <<"ERROR">>, ServerKnown>>)],
    [InstalledFs EXCEPT !.jvmCfg = Unterminated(<<ServerKnown>>)],
    [InstalledFs EXCEPT !.jvmCfg = File(<<>>)],
    [FreshFs EXCEPT !.hostCfg = Unterminated(<<ServerKnown>>)] }

\* One call _jdk(build, create): a call that returns is counted and another
\* may follow; one that does not leaves the program with its failure.
JdkCall ==
  /\ pc = "jdk"
  /\ calls < MaxCalls
  /\ \E b \in JdkBuilds, create \in BOOLEAN :
       LET r == _jdk(b, create, fs) IN
       /\ fs' = r.fs
       /\ log' = log \o LogLines(r.logs)
       /\ IF r.out = "ok"
          THEN calls' = calls + 1 /\ UNCHANGED <<pc, exc>>
          ELSE Propagate(JdkFailure(r)) /\ UNCHANGED calls
  /\ UNCHANGED <<i, d, now, total, t, exitStatus, _vmbuild, _vmSourcesAvailable,
                 platformSystem, javaVersion, res, mxVars, args, exportVars,
                 unittestVars, dacapoVars>>

InitJdk ==
  /\ pc = "jdk"
  /\ fs \in JdkStartFs
  /\ args = <<>>
  /\ _vmSourcesAvailable = TRUE
  /\ _vmbuild = "product"
  /\ platformSystem = "Linux"
  /\ CommandStarts
  /\ ExportIdle
  /\ UnittestIdle
  /\ DacapoIdle
  /\ JdkIdle

NextJdk ==
  \/ JdkCall
  \/ Exit

SpecJdk == InitJdk /\ [][NextJdk]_vars

\* Whether a line of the file contains '-graal KNOWN', and how often the
\* log says that it was appended.
HasGraalKnown(file) ==
  \E k \in 1..Len(file.lines) : Contains(file.lines[k], GraalKnown)

TimesAppended(lg) ==
  Cardinality({k \in 1..Len(lg) : lg[k].title = <<"Appending -graal KNOWN">>})

\* C16: a call of _jdk that returns leaves a jvm.cfg with a line containing
\* '-graal KNOWN'; no step changes a jvm.cfg that has such a line; and over
\* the whole sequence of calls the line is appended at most once.
C16_AppendedAtMostOnce ==
  [][/\ calls' = calls + 1 => HasGraalKnown(fs'.jvmCfg)
     /\ HasGraalKnown(fs.jvmCfg) => fs'.jvmCfg = fs.jvmCfg
     /\ fs'.jvmCfg # fs.jvmCfg /\ fs.jvmCfg.exists =>
          /\ fs'.jvmCfg.eol
          /\ \/ fs'.jvmCfg.lines = Append(fs.jvmCfg.lines, GraalKnown)
             \/ /\ ~fs.jvmCfg.eol
                /\ Len(fs'.jvmCfg.lines) = Len(fs.jvmCfg.lines)
     /\ TimesAppended(log') <= 1]_vars

\* C16: a second call of _jdk has returned after the call that appended
\* the line.
C16_Witness ==
  /\ pc = "jdk"
  /\ calls >= 2
  /\ TimesAppended(log) = 1
  /\ HasGraalKnown(fs.jvmCfg)
  /\ "fastdebug" \in fs.variants

====
